---- MODULE Spec2Model ----
(***************************************************************************)
(* Crypto FM voice pipeline: the script-segment queue (queue.json), the    *)
(* ingestor (processFullScript), the synthesizer (generateAudio), the      *)
(* lifecycle operations (markSegmentAsSpoken, cleanupOldSpokenSegments)    *)
(* and the HTTP handlers of voice-server.js that drive them.               *)
(*                                                                         *)
(* Text is a sequence of one-character strings.  The element "phoneme"     *)
(* stands for that seven-letter tag name written as one symbol, "\n" for   *)
(* a line feed, "a" for a lower-case letter and "A" for a capital.         *)
(***************************************************************************)
EXTENDS Integers, Sequences, FiniteSets, Bags, TLC

(***************************************************************************)
(* Bounds of the model.                                                    *)
(***************************************************************************)
\* appends made to full-script.txt by the script generator
MaxAppends == 2
\* HTTP requests whose synthesis can be in flight at the same time
MaxInflight == 2
\* last value of the clock (days)
MaxTime == 9
\* symbols and tags in the transcripts enumerated for the ingestor
MaxTextLen == 4
\* symbols in the transcripts enumerated for the chunk splitter
MaxSplitLen == 6
\* MAX_CHARS of generateAudio, 4500 in the source, scaled so that the
\* enumerated texts span several windows
MAX_CHARS == 3
MaxCalls == 21
MaxSeconds == 62

MAX_SCRIPT_AGE_DAYS == 7

\* a missing value of each kind: null audioFile (falsy), undefined spokenAt,
\* the NaN of parseInt, a transcript file that does not exist
NoPath == <<>>
NoDate == 0
NaN == -1
NoFile == <<"ENOENT">>

(***************************************************************************)
(* String primitives of the JavaScript runtime.                            *)
(***************************************************************************)
IsWhitespace(c) == c \in {" ", "\n"}

\* '.' of a regular expression matches everything but a line terminator
IsLineTerminator(c) == c = "\n"

\* String.prototype.substring(from, to) with 0-based from, exclusive to
substring(s, from, to) == SubSeq(s, from + 1, to)

\* String.prototype.indexOf(c, from): 0-based index or -1
indexOf(s, c, from) ==
    LET hits == {k \in (from + 1)..Len(s) : s[k] = c}
    IN  IF hits = {} THEN -1
        ELSE (CHOOSE k \in hits : \A m \in hits : k <= m) - 1

\* String.prototype.lastIndexOf(c): 0-based index or -1
lastIndexOf(s, c) ==
    LET hits == {k \in 1..Len(s) : s[k] = c}
    IN  IF hits = {} THEN -1
        ELSE (CHOOSE k \in hits : \A m \in hits : k >= m) - 1

\* String.prototype.trim()
trim(s) ==
    LET keep == {k \in 1..Len(s) : ~IsWhitespace(s[k])}
    IN  IF keep = {} THEN <<>>
        ELSE SubSeq(s, CHOOSE k \in keep : \A m \in keep : k <= m,
                       CHOOSE k \in keep : \A m \in keep : k >= m)

\* /[.!?]/.test(s)
hasSentencePunctuation(s) == \E k \in 1..Len(s) : s[k] \in {".", "!", "?"}

\* s.replace(/\[.*?\]/g, ''), scanning from the 0-based index i
RECURSIVE replaceBracketedFrom(_, _)
replaceBracketedFrom(s, i) ==
    IF i >= Len(s) THEN <<>>
    ELSE LET close == indexOf(s, "]", i + 1)
         IN  IF /\ s[i + 1] = "["
                /\ close # -1
                /\ \A k \in (i + 2)..close : ~IsLineTerminator(s[k])
             THEN replaceBracketedFrom(s, close + 1)
             ELSE <<s[i + 1]>> \o replaceBracketedFrom(s, i + 1)

replaceBracketed(s) == replaceBracketedFrom(s, 0)

\* s.replace(/<phoneme[^>]*>([^<]*)<\/phoneme>/g, '$1'), scanning from i
RECURSIVE replacePhonemeFrom(_, _)
replacePhonemeFrom(s, i) ==
    IF i >= Len(s) THEN <<>>
    ELSE LET gt == indexOf(s, ">", i + 2)
             lt == IF gt = -1 THEN -1 ELSE indexOf(s, "<", gt + 1)
         IN  IF /\ s[i + 1] = "<"
                /\ i + 2 <= Len(s)
                /\ s[i + 2] = "phoneme"
                /\ gt # -1
                /\ lt # -1
                /\ lt + 4 <= Len(s)
                /\ s[lt + 2] = "/"
                /\ s[lt + 3] = "phoneme"
                /\ s[lt + 4] = ">"
             THEN substring(s, gt + 1, lt) \o replacePhonemeFrom(s, lt + 4)
             ELSE <<s[i + 1]>> \o replacePhonemeFrom(s, i + 1)

replacePhoneme(s) == replacePhonemeFrom(s, 0)

\* s.replace(/<[^>]+>/g, ''), scanning from i
RECURSIVE replaceTagsFrom(_, _)
replaceTagsFrom(s, i) ==
    IF i >= Len(s) THEN <<>>
    ELSE LET gt == indexOf(s, ">", i + 1)
         IN  IF s[i + 1] = "<" /\ gt # -1 /\ gt > i + 1
             THEN replaceTagsFrom(s, gt + 1)
             ELSE <<s[i + 1]>> \o replaceTagsFrom(s, i + 1)

replaceTags(s) == replaceTagsFrom(s, 0)

\* parseInt(s): the value of the leading decimal digits, NaN when there are none
Digits == <<"0", "1", "2", "3", "4", "5", "6", "7", "8", "9">>

IsDigit(c) == \E d \in 1..10 : Digits[d] = c

DigitValue(c) == (CHOOSE d \in 1..10 : Digits[d] = c) - 1

RECURSIVE parseDigits(_, _, _)
parseDigits(s, k, acc) ==
    IF k > Len(s) \/ ~IsDigit(s[k]) THEN acc
    ELSE parseDigits(s, k + 1, acc * 10 + DigitValue(s[k]))

parseInt(s) ==
    IF s = <<>> \/ ~IsDigit(s[1]) THEN NaN ELSE parseDigits(s, 1, 0)

\* `${id}` of the player's request URL: the decimal digits of a number below 100
toString(n) ==
    IF n < 10 THEN <<Digits[n + 1]>>
    ELSE <<Digits[(n \div 10) + 1], Digits[(n % 10) + 1]>>

\* a === b on numbers: NaN equals nothing, itself included
StrictEquals(a, b) == a # NaN /\ b # NaN /\ a = b

(***************************************************************************)
(* The queue store (queue.json) and the audio directories.                 *)
(*   queue    [lastPosition, segments]                                     *)
(*   segment  [id, text, timestamp, status, audioFile, spokenAt, seq]      *)
(*            seq is a history field, the ordinal of the append; the       *)
(*            program does not store it                                    *)
(*   path     <<dir>> \o name, NoPath for null                             *)
(***************************************************************************)
CURRENT_DIR == "current"
SPOKEN_DIR == "spoken"

\* path.join(dir, name) and path.basename(p)
join(dir, name) == <<dir>> \o name

basename(p) == Tail(p)

\* `segment-${segmentId}.mp3`
segmentFileName(segmentId) == toString(segmentId)

\* segments.find(pred) as the 1-based index of the first match, 0 when none
findIndex(segments, P(_)) ==
    LET hits == {k \in 1..Len(segments) : P(segments[k])}
    IN  IF hits = {} THEN 0 ELSE CHOOSE k \in hits : \A m \in hits : k <= m

\* the queue after the push; the new segment is its last element
addSegmentToQueue(q, segment, t, ord) ==
    [q EXCEPT !.segments = Append(@,
        [id |-> t, text |-> segment, timestamp |-> t, status |-> "pending",
         audioFile |-> NoPath, spokenAt |-> NoDate, seq |-> ord])]

\* fault-injected variant: the file is moved but the record keeps its old path
markSegmentAsSpokenStalePath(q, fs, segmentId, t) ==
    LET k == findIndex(q.segments, LAMBDA s : StrictEquals(s.id, segmentId))
    IN  IF k = 0 THEN [queue |-> q, files |-> fs]
        ELSE LET audioFile == q.segments[k].audioFile
                 q1 == [q EXCEPT !.segments[k].status = "spoken",
                                 !.segments[k].spokenAt = t]
             IN  IF audioFile # NoPath /\ audioFile \in fs
                 THEN LET spokenFile == join(SPOKEN_DIR, basename(audioFile))
                      IN  [queue |-> q1,
                           files |-> (fs \ {audioFile}) \cup {spokenFile}]
                 ELSE [queue |-> q1, files |-> fs]

\* the queue file and the set of audio files after the call
markSegmentAsSpoken(q, fs, segmentId, t) ==
    LET k == findIndex(q.segments, LAMBDA s : StrictEquals(s.id, segmentId))
    IN  IF k = 0 THEN [queue |-> q, files |-> fs]
        ELSE LET audioFile == q.segments[k].audioFile
                 q1 == [q EXCEPT !.segments[k].status = "spoken",
                                 !.segments[k].spokenAt = t]
             IN  IF audioFile # NoPath /\ audioFile \in fs
                 THEN LET spokenFile == join(SPOKEN_DIR, basename(audioFile))
                      IN  [queue |-> [q1 EXCEPT !.segments[k].audioFile = spokenFile],
                           files |-> (fs \ {audioFile}) \cup {spokenFile}]
                 ELSE [queue |-> q1, files |-> fs]

\* fault-injected variant: the last pending or ready segment instead of the first
getNextSegmentToSpeakLast(q) ==
    LET hits == {k \in 1..Len(q.segments) : q.segments[k].status \in {"pending", "ready"}}
    IN  IF hits = {} THEN <<>>
        ELSE <<q.segments[CHOOSE k \in hits : \A m \in hits : k >= m]>>

\* <<segment>> for the segment found, << >> for undefined
getNextSegmentToSpeak(q) ==
    LET k == findIndex(q.segments, LAMBDA s : s.status \in {"pending", "ready"})
    IN  IF k = 0 THEN <<>> ELSE <<q.segments[k]>>

\* fault-injected variant: a segment spoken exactly at the cutoff is removed too
cleanupOldSpokenSegmentsInclusive(q, fs, t) ==
    LET cutoffDate == t - MAX_SCRIPT_AGE_DAYS
        expired(s) == s.status = "spoken" /\ s.spokenAt # NoDate /\ s.spokenAt <= cutoffDate
        deleted == {q.segments[k].audioFile : k \in {m \in 1..Len(q.segments) :
                        expired(q.segments[m]) /\ q.segments[m].audioFile # NoPath}}
    IN  [queue |-> [q EXCEPT !.segments = SelectSeq(@, LAMBDA s : ~expired(s))],
         files |-> fs \ deleted]

\* the queue file and the set of audio files after the sweep
cleanupOldSpokenSegments(q, fs, t) ==
    LET cutoffDate == t - MAX_SCRIPT_AGE_DAYS
        expired(s) == s.status = "spoken" /\ s.spokenAt # NoDate /\ s.spokenAt < cutoffDate
        deleted == {q.segments[k].audioFile : k \in {m \in 1..Len(q.segments) :
                        expired(q.segments[m]) /\ q.segments[m].audioFile # NoPath}}
    IN  [queue |-> [q EXCEPT !.segments = SelectSeq(@, LAMBDA s : ~expired(s))],
         files |-> fs \ deleted]

\* fault-injected variant: the cursor is set to the length of the new content
processFullScriptRelativeCursor(q, fullScript, t, ord) ==
    IF fullScript = NoFile THEN [queue |-> q, ret |-> <<>>, taken |-> <<>>]
    ELSE
    LET startPosition == q.lastPosition
    IN  IF startPosition < Len(fullScript)
        THEN LET newContent == substring(fullScript, startPosition, Len(fullScript))
             IN  IF trim(newContent) # <<>> /\ hasSentencePunctuation(newContent)
                 THEN LET q1 == [q EXCEPT !.lastPosition = Len(newContent)]
                          cleanContent ==
                              replaceTags(replacePhoneme(trim(replaceBracketed(newContent))))
                      IN  IF cleanContent # <<>>
                          THEN LET q2 == addSegmentToQueue(q1, cleanContent, t, ord)
                               IN  [queue |-> q2, ret |-> <<q2.segments[Len(q2.segments)]>>,
                                    taken |-> newContent]
                          ELSE [queue |-> q1, ret |-> <<>>, taken |-> newContent]
                 ELSE [queue |-> q, ret |-> <<>>, taken |-> <<>>]
        ELSE [queue |-> q, ret |-> <<>>, taken |-> <<>>]

\* fault-injected variant: new content is taken without the test for sentence punctuation
processFullScriptAnyText(q, fullScript, t, ord) ==
    IF fullScript = NoFile THEN [queue |-> q, ret |-> <<>>, taken |-> <<>>]
    ELSE
    LET startPosition == q.lastPosition
    IN  IF startPosition < Len(fullScript)
        THEN LET newContent == substring(fullScript, startPosition, Len(fullScript))
             IN  IF trim(newContent) # <<>>
                 THEN LET q1 == [q EXCEPT !.lastPosition = Len(fullScript)]
                          cleanContent ==
                              replaceTags(replacePhoneme(trim(replaceBracketed(newContent))))
                      IN  IF cleanContent # <<>>
                          THEN LET q2 == addSegmentToQueue(q1, cleanContent, t, ord)
                               IN  [queue |-> q2, ret |-> <<q2.segments[Len(q2.segments)]>>,
                                    taken |-> newContent]
                          ELSE [queue |-> q1, ret |-> <<>>, taken |-> newContent]
                 ELSE [queue |-> q, ret |-> <<>>, taken |-> <<>>]
        ELSE [queue |-> q, ret |-> <<>>, taken |-> <<>>]

\* the queue file after the call, the value returned (<< >> for null) and
\* the transcript text the call has taken (newContent when the guard passed)
processFullScript(q, fullScript, t, ord) ==
    IF fullScript = NoFile THEN [queue |-> q, ret |-> <<>>, taken |-> <<>>]
    ELSE
    LET startPosition == q.lastPosition
    IN  IF startPosition < Len(fullScript)
        THEN LET newContent == substring(fullScript, startPosition, Len(fullScript))
             IN  IF trim(newContent) # <<>> /\ hasSentencePunctuation(newContent)
                 THEN LET q1 == [q EXCEPT !.lastPosition = Len(fullScript)]
                          cleanContent ==
                              replaceTags(replacePhoneme(trim(replaceBracketed(newContent))))
                      IN  IF cleanContent # <<>>
                          THEN LET q2 == addSegmentToQueue(q1, cleanContent, t, ord)
                               IN  [queue |-> q2, ret |-> <<q2.segments[Len(q2.segments)]>>,
                                    taken |-> newContent]
                          ELSE [queue |-> q1, ret |-> <<>>, taken |-> newContent]
                 ELSE [queue |-> q, ret |-> <<>>, taken |-> <<>>]
        ELSE [queue |-> q, ret |-> <<>>, taken |-> <<>>]

(***************************************************************************)
(* The synthesizer, generateAudio.                                         *)
(***************************************************************************)
\* lines 156-160: the text sent to the speech provider
cleanText(text) == replaceTags(replacePhoneme(replaceBracketed(text)))

\* fault-injected variant: the next chunk starts one character after the sentence end
RECURSIVE splitFromSkipping(_, _, _)
splitFromSkipping(text, startIndex, maxChars) ==
    IF ~(startIndex < Len(text)) THEN <<>>
    ELSE LET endIndex == startIndex + maxChars
         IN  IF endIndex >= Len(text)
             THEN <<substring(text, startIndex, Len(text))>>
             ELSE LET lastSentenceEnd ==
                          lastIndexOf(substring(text, startIndex, endIndex), ".")
                      cut == IF lastSentenceEnd > 0
                             THEN startIndex + lastSentenceEnd + 1
                             ELSE endIndex
                      resume == IF lastSentenceEnd > 0 THEN cut + 1 ELSE cut
                  IN  <<substring(text, startIndex, cut)>>
                          \o splitFromSkipping(text, resume, maxChars)

\* fault-injected variant: a period at the very start of the window counts
\* as a sentence end and the cut is made before the period; an iteration that
\* does not advance emits its empty chunk and the loop is left there
RECURSIVE splitFromStalling(_, _, _)
splitFromStalling(text, startIndex, maxChars) ==
    IF ~(startIndex < Len(text)) THEN <<>>
    ELSE LET endIndex == startIndex + maxChars
         IN  IF endIndex >= Len(text)
             THEN <<substring(text, startIndex, Len(text))>>
             ELSE LET lastSentenceEnd ==
                          lastIndexOf(substring(text, startIndex, endIndex), ".")
                      cut == IF lastSentenceEnd >= 0
                             THEN startIndex + lastSentenceEnd
                             ELSE endIndex
                  IN  IF cut = startIndex THEN <<substring(text, startIndex, cut)>>
                      ELSE <<substring(text, startIndex, cut)>>
                               \o splitFromStalling(text, cut, maxChars)

\* lines 167-188 of voice-management.js: the loop from startIndex on
RECURSIVE splitFrom(_, _, _)
splitFrom(text, startIndex, maxChars) ==
    IF ~(startIndex < Len(text)) THEN <<>>
    ELSE LET endIndex == startIndex + maxChars
         IN  IF endIndex >= Len(text)
             THEN <<substring(text, startIndex, Len(text))>>
             ELSE LET lastSentenceEnd ==
                          lastIndexOf(substring(text, startIndex, endIndex), ".")
                      cut == IF lastSentenceEnd > 0
                             THEN startIndex + lastSentenceEnd + 1
                             ELSE endIndex
                  IN  <<substring(text, startIndex, cut)>> \o splitFrom(text, cut, maxChars)

textChunks(text, maxChars) ==
    IF Len(text) > maxChars THEN splitFrom(text, 0, maxChars) ELSE <<text>>

\* part_006 lines 146-148: the index of the last match of
\* /[.!?]\s+(?=[A-Z])/g in chunk, -1 when there is none
lastSentenceMatch(chunk) ==
    LET matches == {k \in 1..Len(chunk) :
            /\ chunk[k] \in {".", "!", "?"}
            /\ \E m \in (k + 1)..(Len(chunk) - 1) :
                  /\ \A w \in (k + 1)..m : IsWhitespace(chunk[w])
                  /\ chunk[m + 1] = "A"}
    IN  IF matches = {} THEN -1
        ELSE (CHOOSE k \in matches : \A m \in matches : k >= m) - 1

\* chunk.lastIndexOf(', ')
lastCommaSpace(chunk) ==
    LET hits == {k \in 1..(Len(chunk) - 1) : chunk[k] = "," /\ chunk[k + 1] = " "}
    IN  IF hits = {} THEN -1
        ELSE (CHOOSE k \in hits : \A m \in hits : k >= m) - 1

\* lines 134-167 of part_006: the loop from startIndex on
RECURSIVE splitFrom006(_, _, _)
splitFrom006(text, startIndex, maxChars) ==
    IF ~(startIndex < Len(text)) THEN <<>>
    ELSE LET endIndex == startIndex + maxChars
         IN  IF endIndex >= Len(text)
             THEN <<substring(text, startIndex, Len(text))>>
             ELSE LET chunk == substring(text, startIndex, endIndex)
                      lastMatch == lastSentenceMatch(chunk)
                      lastComma == lastCommaSpace(chunk)
                      cut == IF lastMatch # -1 THEN startIndex + lastMatch + 2
                             ELSE IF lastComma > 0 THEN startIndex + lastComma + 2
                             ELSE endIndex
                  IN  <<substring(text, startIndex, cut)>> \o splitFrom006(text, cut, maxChars)

textChunks006(text, maxChars) ==
    IF Len(text) > maxChars THEN splitFrom006(text, 0, maxChars) ELSE <<text>>

\* fault-injected variant: a segment that already has audio gets a second
\* record for the new audio
storeAudioSecondRecord(q, fs, segmentId) ==
    LET audioFile == join(CURRENT_DIR, segmentFileName(segmentId))
        k == findIndex(q.segments, LAMBDA s : StrictEquals(s.id, segmentId))
    IN  [queue |-> IF k = 0 THEN q
                   ELSE IF q.segments[k].audioFile # NoPath
                   THEN [q EXCEPT !.segments = Append(@, q.segments[k])]
                   ELSE [q EXCEPT !.segments[k].audioFile = audioFile,
                                  !.segments[k].status = "ready"],
         files |-> fs \cup {audioFile},
         ret |-> audioFile]

\* fault-injected variant: the update is made on the queue as it was when the
\* segment was its last element, and written over the present one
storeAudioOnSnapshot(q, fs, segmentId) ==
    LET audioFile == join(CURRENT_DIR, segmentFileName(segmentId))
        k == findIndex(q.segments, LAMBDA s : StrictEquals(s.id, segmentId))
    IN  [queue |-> IF k = 0 THEN q
                   ELSE [q EXCEPT !.segments =
                            SubSeq([@ EXCEPT ![k].audioFile = audioFile,
                                             ![k].status = "ready"], 1, k)],
         files |-> fs \cup {audioFile},
         ret |-> audioFile]

\* lines 221-232: the audio file is written, then the queue is read again
\* and the segment, when it is still there, becomes ready
storeAudio(q, fs, segmentId) ==
    LET audioFile == join(CURRENT_DIR, segmentFileName(segmentId))
        k == findIndex(q.segments, LAMBDA s : StrictEquals(s.id, segmentId))
    IN  [queue |-> IF k = 0 THEN q
                   ELSE [q EXCEPT !.segments[k].audioFile = audioFile,
                                  !.segments[k].status = "ready"],
         files |-> fs \cup {audioFile},
         ret |-> audioFile]

(***************************************************************************)
(* State of the voice server process and of the files it shares.           *)
(***************************************************************************)
VARIABLES
    transcript,  \* scripts/full-script.txt, NoFile while it does not exist
    queue,       \* scripts/queue.json
    files,       \* the audio files in scripts/current and scripts/spoken
    now,         \* the clock read by Date.now() and new Date(), in days
    apiKey,      \* whether GOOGLE_CLOUD_TTS_API_KEY is set
    variant,     \* the copy of the voice management module that is loaded
    synth,       \* the bag of generateAudio calls awaiting the speech provider
    recording,   \* whether the responses of the handlers are recorded
    resp,        \* the HTTP response sent by the step just taken, NoResp when it sent
                 \* none or while responses are not recorded
    appends,     \* history: appends made to the transcript
    consumed,    \* history: the transcript text taken by the ingestor so far
    nextSeq,     \* history: ordinal of the next segment appended
    coinGecko    \* the data API server: its clock, its CoinGecko rate limiter and the
                 \* fetch cycles that call it

vars == <<transcript, queue, files, now, apiKey, variant, synth, recording, resp, appends, consumed,
          nextSeq, coinGecko>>

\* the variables of the voice server and of the script generator
voice == <<transcript, queue, files, now, apiKey, variant, synth, recording, resp, appends, consumed,
           nextSeq>>

\* the clock values the model visits: the first day, then the days from the
\* end of the retention window on
ClockValues == {1} \cup ((MAX_SCRIPT_AGE_DAYS + 1)..MaxTime)

\* what the script generator appends after its '\n\n' separator: a text of
\* several sentences or a fragment without punctuation
Utterances == { <<"a", ".", "a", ".", "a">>, <<"a">> }

\* the :id path parameter of a request: the decimal form of a number, the
\* same followed by a letter, or a letter alone
ReqIds == {toString(n) : n \in ClockValues} \cup {<<"1", "x">>, <<"x">>}

\* keys is the set of the properties of the JSON body; success, error and
\* the other fields hold FALSE, "" or a null while their key is absent
NoResp == [op |-> "none", code |-> 0, success |-> FALSE, hasSegment |-> FALSE,
           id |-> 0, text |-> <<>>, audioUrl |-> NoPath, status |-> "", error |-> "",
           keys |-> {}]

\* the handler sends the response r
Respond(r) == resp' = IF recording THEN r ELSE NoResp

\* data-api-server.js, with its times in seconds
MAX_COINGECKO_REQUESTS_PER_MINUTE == 20
MIN_CALL_INTERVAL == 3
MINUTE == 60
WINDOW_BUFFER == 1
BACK_OFF == 120

\* the fetch cycles that can be running: the one the interval timer started
\* and the one POST /api/actions/fetch started
Cycles == {"periodic", "manual"}

\* Date.now() when the data API server is loaded
LoadTime == 100

\* the data API server after its module is loaded: no call made yet
\* (global.lastCoinGeckoCallTime is undefined and read as 0), both cycles
\* outside rateLimitedCoinGeckoCall.  now and wakeAt hold a value only while
\* the call of the cycle waits.  issued, burstStart, burstCount, lastIssue and
\* tooClose are history: the requests sent, the first request of the current
\* run of requests less than a minute long and their number, the time of the
\* last request and whether two consecutive requests were less than
\* MIN_CALL_INTERVAL apart
LimiterLoaded ==
    [clock |-> LoadTime,
     coinGeckoCallsInCurrentMinute |-> 0,
     coinGeckoMinuteStartTime |-> LoadTime,
     lastCoinGeckoCallTime |-> 0,
     pc |-> [c \in Cycles |-> "idle"],
     now |-> [c \in Cycles |-> 0],
     wakeAt |-> [c \in Cycles |-> 0],
     issued |-> 0, burstStart |-> 0, burstCount |-> 0, lastIssue |-> 0,
     tooClose |-> FALSE]

\* the state after the modules are loaded on a scripts directory without
\* queue.json, but for the transcript
Start ==
    /\ queue = [lastPosition |-> 0, segments |-> <<>>]
    /\ files = {}
    /\ now = 1
    /\ synth = EmptyBag
    /\ resp = NoResp
    /\ consumed = <<>>
    /\ nextSeq = 1

\* the copies of the module: voice-management.js and the unnamed part_006
Variants == {"voice-management", "part_006"}

\* the server running voice-management.js, with or without its API key
Init ==
    /\ Start
    /\ transcript = NoFile
    /\ appends = 0
    /\ apiKey \in BOOLEAN
    /\ variant = "voice-management"
    /\ recording = FALSE
    /\ coinGecko = LimiterLoaded

\* the same server, its responses recorded
InitHttp ==
    /\ Start
    /\ transcript = NoFile
    /\ appends = 0
    /\ apiKey \in BOOLEAN
    /\ variant = "voice-management"
    /\ recording = TRUE
    /\ coinGecko = LimiterLoaded

(***************************************************************************)
(* Environment: the script generator and the clock.                        *)
(***************************************************************************)
\* radio-jockey-agent.js generateScript: fullScript + '\n\n' + newSegment
AppendTranscript(u) ==
    /\ appends < MaxAppends
    /\ transcript' = (IF transcript = NoFile THEN <<>> ELSE transcript)
                         \o <<"\n", "\n">> \o u
    /\ appends' = appends + 1
    /\ resp' = NoResp
    /\ UNCHANGED <<queue, files, now, apiKey, variant, recording, coinGecko, synth, consumed, nextSeq>>

Tick ==
    /\ \E t \in ClockValues : t > now /\ now' = t
    /\ resp' = NoResp
    /\ UNCHANGED <<transcript, queue, files, apiKey, variant, recording, coinGecko, synth, appends, consumed, nextSeq>>

(***************************************************************************)
(* The ingestor.                                                           *)
(***************************************************************************)
\* the effect of one processFullScript call on the store and the history
Ingested(r) ==
    /\ queue' = r.queue
    /\ consumed' = consumed \o r.taken
    /\ nextSeq' = IF r.ret # <<>> THEN nextSeq + 1 ELSE nextSeq

\* voice-server.js, the setInterval callback of app.listen
IngestTimer ==
    /\ \E readOk \in BOOLEAN :
         IF readOk \/ transcript = NoFile
         THEN Ingested(processFullScript(queue, transcript, now, nextSeq))
         ELSE UNCHANGED <<queue, consumed, nextSeq>>
    /\ resp' = NoResp
    /\ UNCHANGED <<transcript, files, now, apiKey, variant, recording, coinGecko, synth, appends>>

\* GET /api/check-new-segments
CheckNewSegments ==
    /\ \E readOk \in BOOLEAN :
         IF readOk \/ transcript = NoFile
         THEN LET r == processFullScript(queue, transcript, now, nextSeq)
              IN  /\ Ingested(r)
                  /\ Respond([NoResp EXCEPT !.op = "check-new", !.code = 200,
                                 !.success = TRUE,
                                 !.hasSegment = (r.ret # <<>>),
                                 !.id = IF r.ret # <<>> THEN r.ret[1].id ELSE 0,
                                 !.status = IF r.ret # <<>> THEN r.ret[1].status ELSE "",
                                 !.keys = {"success", "hasNewSegment", "segment"}])
         ELSE /\ UNCHANGED <<queue, consumed, nextSeq>>
              /\ Respond([NoResp EXCEPT !.op = "check-new", !.code = 500,
                             !.error = "EIO", !.keys = {"success", "error"}])
    /\ UNCHANGED <<transcript, files, now, apiKey, variant, recording, coinGecko, synth, appends>>

(***************************************************************************)
(* The delivery endpoint, voice-server.js.                                 *)
(***************************************************************************)
\* `/audio/${path.basename(audioFile)}`
audioUrlOf(audioFile) == IF audioFile # NoPath THEN join("audio", basename(audioFile)) ELSE NoPath

\* lines 114-132: the response of GET /api/next-segment for the handler's
\* copy of the segment and the value generateAudio returned
nextSegmentResponse(segment, audioFile) ==
    LET audio == IF audioFile # NoPath THEN audioUrlOf(audioFile) ELSE segment.audioFile
        status == IF audioFile # NoPath THEN "ready" ELSE segment.status
    IN  [NoResp EXCEPT !.op = "next", !.code = 200, !.success = TRUE,
            !.hasSegment = TRUE, !.id = segment.id, !.text = segment.text,
            !.audioUrl = audioUrlOf(audio), !.status = status,
            !.keys = {"success", "hasSegment", "segment"}]

\* lines 193-196: the response of POST /api/regenerate-audio/:id
regenerateResponse(audioFile) ==
    [NoResp EXCEPT !.op = "regenerate", !.code = 200, !.success = TRUE,
        !.audioUrl = audioUrlOf(audioFile), !.keys = {"success", "audioUrl"}]

\* voice-server-vercel.js lines 87-104: the response of GET /voice/next-segment
\* for the handler's copy of the segment, which generateAudio does not update
vercelNextResponse(nextSegment) ==
    IF nextSegment.audioFile # NoPath
    THEN [NoResp EXCEPT !.op = "vercel-next", !.code = 200, !.hasSegment = TRUE,
             !.id = nextSegment.id, !.text = nextSegment.text,
             !.audioUrl = audioUrlOf(nextSegment.audioFile),
             !.keys = {"hasSegment", "id", "audioUrl", "text"}]
    ELSE [NoResp EXCEPT !.op = "vercel-next", !.code = 200, !.hasSegment = TRUE,
             !.id = nextSegment.id, !.text = nextSegment.text,
             !.error = "Audio generation failed",
             !.keys = {"hasSegment", "id", "audioUrl", "text", "error"}]

\* the response sent when the generateAudio call of a handler has returned
responseAfterAudio(call, audioFile) ==
    IF call.op = "next" THEN nextSegmentResponse(call.seg[1], audioFile)
    ELSE IF call.op = "vercel-next" THEN vercelNextResponse(call.seg[1])
    ELSE regenerateResponse(audioFile)

\* generateAudio up to its first await: without an API key it returns null at
\* once, otherwise the request for textChunks[0] is in flight; a call is
\* [op, seg, chunks, i]: the handler, its copy of the segment, textChunks and
\* the index of the chunk whose request is in flight
StartAudio(op, segment) ==
    IF ~apiKey
    THEN /\ Respond(responseAfterAudio([op |-> op, seg |-> <<segment>>], NoPath))
         /\ UNCHANGED synth
    ELSE /\ BagCardinality(synth) < MaxInflight
         /\ synth' = synth (+) SetToBag({
                [op |-> op, seg |-> <<segment>>,
                 chunks |-> IF variant = "part_006"
                            THEN textChunks006(cleanText(segment.text), MAX_CHARS)
                            ELSE textChunks(cleanText(segment.text), MAX_CHARS),
                 i |-> 0]})
         /\ resp' = NoResp

\* GET /api/next-segment, up to the response or to the first await
GetNext ==
    /\ LET found == getNextSegmentToSpeak(queue)
       IN  IF found = <<>>
           THEN /\ Respond([NoResp EXCEPT !.op = "next", !.code = 200, !.success = TRUE,
                                !.keys = {"success", "hasSegment"}])
                /\ UNCHANGED synth
           ELSE IF found[1].status = "pending" /\ found[1].audioFile = NoPath
           THEN StartAudio("next", found[1])
           ELSE /\ Respond(nextSegmentResponse(found[1], NoPath))
                /\ UNCHANGED synth
    /\ UNCHANGED <<transcript, queue, files, now, apiKey, variant, recording, coinGecko, appends, consumed, nextSeq>>

\* POST /api/regenerate-audio/:id, up to the response or to the first await
Regenerate(reqId) ==
    /\ LET segmentId == parseInt(reqId)
           found == getNextSegmentToSpeak(queue)
       IN  IF found # <<>> /\ StrictEquals(found[1].id, segmentId)
           THEN StartAudio("regenerate", found[1])
           ELSE /\ Respond([NoResp EXCEPT !.op = "regenerate", !.code = 404,
                               !.error = "Segment not found or not pending",
                               !.keys = {"success", "error"}])
                /\ UNCHANGED synth
    /\ UNCHANGED <<transcript, queue, files, now, apiKey, variant, recording, coinGecko, appends, consumed, nextSeq>>

\* fault-injected variant: a request that fails after an earlier chunk was answered leaves
\* the audio of the answered chunks in the segment's file
TtsFailsPartialFile(call) ==
    /\ BagIn(call, synth)
    /\ Respond(responseAfterAudio(call, NoPath))
    /\ synth' = synth (-) SetToBag({call})
    /\ files' = IF call.i >= 1
                THEN files \cup {join(CURRENT_DIR, segmentFileName(call.seg[1].id))}
                ELSE files
    /\ UNCHANGED <<transcript, queue, now, apiKey, variant, recording, coinGecko, appends, consumed, nextSeq>>

\* the speech provider fails the request in flight: generateAudio returns
\* null from its catch block and the handler responds
TtsFails(call) ==
    /\ BagIn(call, synth)
    /\ Respond(responseAfterAudio(call, NoPath))
    /\ synth' = synth (-) SetToBag({call})
    /\ UNCHANGED <<transcript, queue, files, now, apiKey, variant, recording, coinGecko, appends, consumed, nextSeq>>

\* the speech provider answers a chunk that is not the last: the next
\* request of the loop goes out
TtsChunk(call) ==
    /\ BagIn(call, synth)
    /\ call.i + 1 < Len(call.chunks)
    /\ synth' = (synth (-) SetToBag({call})) (+) SetToBag({[call EXCEPT !.i = @ + 1]})
    /\ resp' = NoResp
    /\ UNCHANGED <<transcript, queue, files, now, apiKey, variant, recording, coinGecko, appends, consumed, nextSeq>>

\* the speech provider answers the last chunk: generateAudio writes the
\* file, updates the queue and returns, and the handler responds
TtsDone(call) ==
    /\ BagIn(call, synth)
    /\ call.i + 1 = Len(call.chunks)
    /\ LET r == storeAudio(queue, files, call.seg[1].id)
       IN  /\ queue' = r.queue
           /\ files' = r.files
           /\ Respond(responseAfterAudio(call, r.ret))
    /\ synth' = synth (-) SetToBag({call})
    /\ UNCHANGED <<transcript, now, apiKey, variant, recording, coinGecko, appends, consumed, nextSeq>>

\* POST /api/mark-spoken/:id
MarkSpoken(reqId) ==
    /\ LET segmentId == parseInt(reqId)
           r == markSegmentAsSpoken(queue, files, segmentId, now)
       IN  /\ queue' = r.queue
           /\ files' = r.files
           /\ Respond([NoResp EXCEPT !.op = "mark-spoken", !.code = 200,
                          !.success = TRUE, !.id = segmentId,
                          !.keys = {"success", "message"}])
    /\ UNCHANGED <<transcript, now, apiKey, variant, recording, coinGecko, synth, appends, consumed, nextSeq>>

\* POST /api/cleanup
CleanupRequest ==
    /\ LET r == cleanupOldSpokenSegments(queue, files, now)
       IN  /\ queue' = r.queue
           /\ files' = r.files
    /\ Respond([NoResp EXCEPT !.op = "cleanup", !.code = 200, !.success = TRUE,
                   !.keys = {"success", "message"}])
    /\ UNCHANGED <<transcript, now, apiKey, variant, recording, coinGecko, synth, appends, consumed, nextSeq>>

\* the daily setInterval of voice-management.js and the sweep of app.listen
CleanupTimer ==
    /\ LET r == cleanupOldSpokenSegments(queue, files, now)
       IN  /\ queue' = r.queue
           /\ files' = r.files
    /\ resp' = NoResp
    /\ UNCHANGED <<transcript, now, apiKey, variant, recording, coinGecko, synth, appends, consumed, nextSeq>>

Next ==
    \/ \E u \in Utterances : AppendTranscript(u)
    \/ Tick
    \/ IngestTimer
    \/ CheckNewSegments
    \/ GetNext
    \/ \E reqId \in ReqIds : Regenerate(reqId)
    \/ \E call \in BagToSet(synth) : TtsFails(call)
    \/ \E call \in BagToSet(synth) : TtsChunk(call)
    \/ \E call \in BagToSet(synth) : TtsDone(call)
    \/ \E reqId \in ReqIds : MarkSpoken(reqId)
    \/ CleanupRequest
    \/ CleanupTimer

Spec == Init /\ [][Next]_vars

SpecHttp == InitHttp /\ [][Next]_vars

\* the server with what its own scheduling guarantees.  The transcript is
\* ingested by check-new-segments requests here, so the one step the process
\* schedules itself is the sweep timer, which keeps firing.  Requests arrive
\* or not, and the speech provider answers or not: the axios call of
\* generateAudio sets no timeout, so no step of the program ends a request
\* that is never answered.
NextLive ==
    \/ \E u \in Utterances : AppendTranscript(u)
    \/ Tick
    \/ CheckNewSegments
    \/ GetNext
    \/ \E call \in BagToSet(synth) : TtsFails(call)
    \/ \E call \in BagToSet(synth) : TtsChunk(call)
    \/ \E call \in BagToSet(synth) : TtsDone(call)
    \/ \E reqId \in ReqIds : MarkSpoken(reqId)
    \/ CleanupTimer

SpecLive == Init /\ [][NextLive]_vars /\ WF_vars(CleanupTimer)

(***************************************************************************)
(* The CoinGecko rate limiter of the data API server.                      *)
(***************************************************************************)
\* global.lastCoinGeckoCallTime = Date.now(); coinGeckoCallsInCurrentMinute++
\* and the request is handed to axios
sendRequest(g, c) ==
    [g EXCEPT !.lastCoinGeckoCallTime = g.clock,
              !.coinGeckoCallsInCurrentMinute = @ + 1,
              !.pc[c] = "request",
              !.now[c] = 0,
              !.wakeAt[c] = 0,
              !.issued = @ + 1,
              !.burstStart = IF g.issued = 0 \/ g.clock - g.burstStart >= MINUTE
                             THEN g.clock ELSE @,
              !.burstCount = IF g.issued = 0 \/ g.clock - g.burstStart >= MINUTE
                             THEN 1 ELSE @ + 1,
              !.lastIssue = g.clock,
              !.tooClose = @ \/ (g.issued > 0 /\ g.clock - g.lastIssue < MIN_CALL_INTERVAL)]

\* the minimum delay between calls: timeSinceLastCall is computed from the
\* now read on entry; the call waits for what is missing, or sends at once
enforceMinimumDelay(g, c, enteredAt) ==
    LET timeSinceLastCall == enteredAt - g.lastCoinGeckoCallTime
    IN  IF timeSinceLastCall < MIN_CALL_INTERVAL
        THEN [g EXCEPT !.pc[c] = "delay",
                       !.wakeAt[c] = g.clock + (MIN_CALL_INTERVAL - timeSinceLastCall)]
        ELSE sendRequest(g, c)

\* a fetch cycle enters rateLimitedCoinGeckoCall and runs to its first await
CallCoinGecko(c) ==
    /\ coinGecko.pc[c] = "idle"
    /\ coinGecko.issued < MaxCalls
    /\ LET g == coinGecko
           enteredAt == g.clock
           newWindow == enteredAt - g.coinGeckoMinuteStartTime >= MINUTE
           g1 == [g EXCEPT !.coinGeckoMinuteStartTime = IF newWindow THEN enteredAt ELSE @,
                           !.coinGeckoCallsInCurrentMinute = IF newWindow THEN 0 ELSE @]
       IN  coinGecko' =
             IF g1.coinGeckoCallsInCurrentMinute >= MAX_COINGECKO_REQUESTS_PER_MINUTE
             THEN [g1 EXCEPT !.pc[c] = "window",
                             !.now[c] = enteredAt,
                             !.wakeAt[c] = g.clock + (MINUTE - (enteredAt - g1.coinGeckoMinuteStartTime))
                                               + WINDOW_BUFFER]
             ELSE enforceMinimumDelay(g1, c, enteredAt)
    /\ UNCHANGED voice

\* the wait for the next window is over: the counters are reset and the
\* minimum delay is enforced with the now read on entry
WindowWaitOver(c) ==
    /\ coinGecko.pc[c] = "window"
    /\ coinGecko.wakeAt[c] <= coinGecko.clock
    /\ LET g1 == [coinGecko EXCEPT !.coinGeckoMinuteStartTime = coinGecko.clock,
                                   !.coinGeckoCallsInCurrentMinute = 0]
       IN  coinGecko' = enforceMinimumDelay(g1, c, coinGecko.now[c])
    /\ UNCHANGED voice

\* the minimum delay is over: the request is sent
DelayOver(c) ==
    /\ coinGecko.pc[c] = "delay"
    /\ coinGecko.wakeAt[c] <= coinGecko.clock
    /\ coinGecko' = sendRequest(coinGecko, c)
    /\ UNCHANGED voice

\* CoinGecko answers, with a result or with 429 Too Many Requests
CoinGeckoAnswers(c, status) ==
    /\ coinGecko.pc[c] = "request"
    /\ coinGecko' =
         IF status = 429
         THEN [coinGecko EXCEPT !.pc[c] = "idle",
                                !.lastCoinGeckoCallTime = coinGecko.clock + BACK_OFF,
                                !.coinGeckoMinuteStartTime = coinGecko.clock + BACK_OFF,
                                !.coinGeckoCallsInCurrentMinute = 0]
         ELSE [coinGecko EXCEPT !.pc[c] = "idle"]
    /\ UNCHANGED voice

\* a second passes.  A timer that is due fires before the clock moves on;
\* CoinGecko answers within the second; the periodic cycle makes its calls
\* back to back, while the manual one makes its calls when it likes
ClockTick ==
    /\ coinGecko.clock < LoadTime + MaxSeconds
    /\ \A c \in Cycles : coinGecko.pc[c] # "request"
    /\ coinGecko.pc["periodic"] = "idle" => coinGecko.issued = MaxCalls
    /\ \A c \in Cycles : coinGecko.pc[c] \in {"window", "delay"} =>
                             coinGecko.wakeAt[c] > coinGecko.clock
    /\ coinGecko' = [coinGecko EXCEPT !.clock = @ + 1]
    /\ UNCHANGED voice

NextLimiter ==
    \/ \E c \in Cycles : CallCoinGecko(c)
    \/ \E c \in Cycles : WindowWaitOver(c)
    \/ \E c \in Cycles : DelayOver(c)
    \/ \E c \in Cycles : \E status \in {200, 429} : CoinGeckoAnswers(c, status)
    \/ ClockTick

\* the data API server alone
InitLimiter == Init /\ ~apiKey

SpecLimiter == InitLimiter /\ [][NextLimiter]_vars

(***************************************************************************)
(* The script generator with a transcript it cannot always read.           *)
(***************************************************************************)
\* radio-jockey-agent.js getFullScript: the file is created empty when it
\* does not exist, and '' is returned when reading it throws
getFullScript(file, readOk) ==
    IF file = NoFile THEN <<>>
    ELSE IF readOk THEN file ELSE <<>>

\* generateScript: saveScript writes fullScript + '\n\n' + newSegment over
\* full-script.txt
GenerateScript(u, readOk) ==
    /\ appends < MaxAppends
    /\ transcript' = getFullScript(transcript, readOk) \o <<"\n", "\n">> \o u
    /\ appends' = appends + 1
    /\ resp' = NoResp
    /\ UNCHANGED <<queue, files, now, apiKey, variant, recording, coinGecko, synth, consumed, nextSeq>>

NextGenerator ==
    \/ \E u \in Utterances : \E readOk \in BOOLEAN : GenerateScript(u, readOk)
    \/ Tick
    \/ IngestTimer
    \/ CheckNewSegments
    \/ GetNext
    \/ \E call \in BagToSet(synth) : TtsFails(call)
    \/ \E call \in BagToSet(synth) : TtsChunk(call)
    \/ \E call \in BagToSet(synth) : TtsDone(call)
    \/ \E reqId \in ReqIds : MarkSpoken(reqId)

SpecGenerator == Init /\ [][NextGenerator]_vars

(***************************************************************************)
(* The pipeline with a player and a speech provider that do their part.    *)
(***************************************************************************)
\* next-segment would start a synthesis: the head of the queue has no audio
\* and the provider takes another call
SynthesisDue ==
    /\ getNextSegmentToSpeak(queue) # <<>>
    /\ getNextSegmentToSpeak(queue)[1].status = "pending"
    /\ getNextSegmentToSpeak(queue)[1].audioFile = NoPath
    /\ BagCardinality(synth) < MaxInflight

\* part_009, the 'ended' listener: the player has played the audio of the
\* segment next-segment gave it and posts mark-spoken with its id
PlayerAck ==
    /\ getNextSegmentToSpeak(queue) # <<>>
    /\ getNextSegmentToSpeak(queue)[1].status = "ready"
    /\ MarkSpoken(toString(getNextSegmentToSpeak(queue)[1].id))

NextPipeline ==
    \/ \E u \in Utterances : AppendTranscript(u)
    \/ Tick
    \/ IngestTimer
    \/ CheckNewSegments
    \/ GetNext
    \/ \E call \in BagToSet(synth) : TtsFails(call)
    \/ \E call \in BagToSet(synth) : TtsChunk(call)
    \/ \E call \in BagToSet(synth) : TtsDone(call)
    \/ PlayerAck
    \/ CleanupTimer

\* the player keeps asking for the next segment (playNextSegment retries on
\* every answer without audio) and acknowledges what it has played; the
\* provider fails now and then, but each request that keeps being made is
\* answered with success in the end
PipelineFairness ==
    /\ []<>(~SynthesisDue) \/ []<><<GetNext>>_vars
    /\ WF_vars(PlayerAck)
    /\ \A i \in 0..MaxTextLen :
          SF_vars(\E call \in BagToSet(synth) : call.i = i /\ TtsChunk(call))
    /\ SF_vars(\E call \in BagToSet(synth) : TtsDone(call))

\* the server with its API key set
InitPipeline == Init /\ apiKey = TRUE

SpecPipeline == InitPipeline /\ [][NextPipeline]_vars /\ PipelineFairness

(***************************************************************************)
(* Process restart.                                                        *)
(***************************************************************************)
\* fault-injected variant: the module writes an empty queue at every load
loadModuleReset(exists, q) == [lastPosition |-> 0, segments |-> <<>>]

\* the module-level initialisation of voice-management.js: queue.json is
\* written, empty, only while it does not exist
loadModule(exists, q) ==
    IF ~exists THEN [lastPosition |-> 0, segments |-> <<>>] ELSE q

\* the voice server stops between two handlers and starts again on the same
\* scripts directory: the calls awaiting the speech provider are gone with
\* the old process, the module is loaded on the existing queue.json, and the
\* listen callback runs the sweep once
Restart ==
    /\ LET loaded == loadModule(TRUE, queue)
           r == cleanupOldSpokenSegments(loaded, files, now)
       IN  /\ queue' = r.queue
           /\ files' = r.files
    /\ synth' = EmptyBag
    /\ resp' = NoResp
    /\ UNCHANGED <<transcript, now, apiKey, variant, recording, coinGecko, appends, consumed, nextSeq>>

NextRestart ==
    \/ \E u \in Utterances : AppendTranscript(u)
    \/ Tick
    \/ CheckNewSegments
    \/ GetNext
    \/ \E call \in BagToSet(synth) : TtsFails(call)
    \/ \E call \in BagToSet(synth) : TtsChunk(call)
    \/ \E call \in BagToSet(synth) : TtsDone(call)
    \/ \E reqId \in ReqIds : MarkSpoken(reqId)
    \/ Restart

SpecRestart == Init /\ [][NextRestart]_vars

(***************************************************************************)
(* Process crash inside a store operation.                                 *)
(***************************************************************************)
\* the queue file left by a process that dies inside processFullScript after
\* updateScriptQueue(queue) has written the cursor (line 299) and before
\* addSegmentToQueue has written the segment (line 102)
processFullScriptCrashed(q, fullScript) ==
    [q EXCEPT !.lastPosition = Len(fullScript)]

\* the server dies at that point of an ingest whose new content passes the
\* guard, and is started again
CrashInIngest ==
    /\ transcript # NoFile
    /\ processFullScript(queue, transcript, now, nextSeq).taken # <<>>
    /\ LET persisted == processFullScriptCrashed(queue, transcript)
           r == cleanupOldSpokenSegments(loadModule(TRUE, persisted), files, now)
       IN  /\ queue' = r.queue
           /\ files' = r.files
    /\ consumed' = consumed \o processFullScript(queue, transcript, now, nextSeq).taken
    /\ synth' = EmptyBag
    /\ resp' = NoResp
    /\ UNCHANGED <<transcript, now, apiKey, variant, recording, coinGecko, appends, nextSeq>>

\* the queue file and the audio files left by a process that dies inside
\* markSegmentAsSpoken for a segment with an audio file: after the first
\* updateScriptQueue (line 116) and before renameSync (line 121), or, when
\* moved, after renameSync and before the second updateScriptQueue (line 123)
markSegmentAsSpokenCrashed(q, fs, segmentId, t, moved) ==
    LET k == findIndex(q.segments, LAMBDA s : StrictEquals(s.id, segmentId))
        audioFile == q.segments[k].audioFile
        spokenFile == join(SPOKEN_DIR, basename(audioFile))
    IN  [queue |-> [q EXCEPT !.segments[k].status = "spoken",
                             !.segments[k].spokenAt = t],
         files |-> IF moved THEN (fs \ {audioFile}) \cup {spokenFile} ELSE fs]

\* the server dies at one of these points of POST /api/mark-spoken/:id, and
\* is started again
CrashInMarkSpoken(reqId, moved) ==
    /\ LET segmentId == parseInt(reqId)
           k == findIndex(queue.segments, LAMBDA s : StrictEquals(s.id, segmentId))
       IN  /\ k # 0
           /\ queue.segments[k].audioFile # NoPath
           /\ queue.segments[k].audioFile \in files
           /\ LET persisted == markSegmentAsSpokenCrashed(queue, files, segmentId, now, moved)
                  r == cleanupOldSpokenSegments(loadModule(TRUE, persisted.queue),
                                                persisted.files, now)
              IN  /\ queue' = r.queue
                  /\ files' = r.files
    /\ synth' = EmptyBag
    /\ resp' = NoResp
    /\ UNCHANGED <<transcript, now, apiKey, variant, recording, coinGecko, appends, consumed, nextSeq>>

NextCrash ==
    \/ \E u \in Utterances : AppendTranscript(u)
    \/ Tick
    \/ CheckNewSegments
    \/ GetNext
    \/ \E call \in BagToSet(synth) : TtsFails(call)
    \/ \E call \in BagToSet(synth) : TtsChunk(call)
    \/ \E call \in BagToSet(synth) : TtsDone(call)
    \/ \E reqId \in ReqIds : MarkSpoken(reqId)
    \/ Restart
    \/ CrashInIngest
    \/ \E reqId \in ReqIds, moved \in BOOLEAN : CrashInMarkSpoken(reqId, moved)

SpecCrash == Init /\ [][NextCrash]_vars

(***************************************************************************)
(* voice-server.js when the file system fails a call.                      *)
(***************************************************************************)
\* the catch block of a route: res.status(500).json({success: false, error})
errorResponse(op) ==
    [NoResp EXCEPT !.op = op, !.code = 500, !.error = "EIO", !.keys = {"success", "error"}]

\* the routes whose first step reads queue.json through getScriptQueue
QueueReaders == {"next", "mark-spoken", "regenerate", "cleanup"}

\* getScriptQueue throws in a route (queue.json unreadable or not JSON)
\* before anything is written
StoreReadFails(op) ==
    /\ Respond(errorResponse(op))
    /\ UNCHANGED <<transcript, queue, files, now, apiKey, variant, recording, coinGecko, synth, appends, consumed, nextSeq>>

\* markSegmentAsSpoken lines 114-122 when renameSync throws: the queue was
\* written with the new status, the file and the path in the record stay
markSegmentAsSpokenRenameFails(q, segmentId, t) ==
    LET k == findIndex(q.segments, LAMBDA s : StrictEquals(s.id, segmentId))
    IN  [q EXCEPT !.segments[k].status = "spoken", !.segments[k].spokenAt = t]

\* POST /api/mark-spoken/:id when the move of the audio file fails
MarkSpokenRenameFails(reqId) ==
    /\ LET segmentId == parseInt(reqId)
           k == findIndex(queue.segments, LAMBDA s : StrictEquals(s.id, segmentId))
       IN  /\ k # 0
           /\ queue.segments[k].audioFile # NoPath
           /\ queue.segments[k].audioFile \in files
           /\ queue' = markSegmentAsSpokenRenameFails(queue, segmentId, now)
    /\ Respond(errorResponse("mark-spoken"))
    /\ UNCHANGED <<transcript, files, now, apiKey, variant, recording, coinGecko, synth, appends, consumed, nextSeq>>

\* GET /api/status: an unreadable queue.json is caught inside and counted as
\* an empty queue, a directory that cannot be listed reaches the catch block
StatusRequest ==
    /\ \E listOk \in BOOLEAN :
          IF listOk
          THEN Respond([NoResp EXCEPT !.op = "status", !.code = 200, !.success = TRUE,
                           !.keys = {"success", "timestamp", "directories", "files",
                                     "segments", "lastPosition"}])
          ELSE Respond(errorResponse("status"))
    /\ UNCHANGED <<transcript, queue, files, now, apiKey, variant, recording, coinGecko, synth, appends, consumed, nextSeq>>

\* the routes of voice-server.js with their failures, on one day
NextFaults ==
    \/ \E u \in Utterances : AppendTranscript(u)
    \/ CheckNewSegments
    \/ GetNext
    \/ \E reqId \in ReqIds : Regenerate(reqId)
    \/ \E call \in BagToSet(synth) : TtsFails(call)
    \/ \E call \in BagToSet(synth) : TtsChunk(call)
    \/ \E call \in BagToSet(synth) : TtsDone(call)
    \/ \E reqId \in ReqIds : MarkSpoken(reqId)
    \/ CleanupRequest
    \/ StatusRequest
    \/ \E op \in QueueReaders : StoreReadFails(op)
    \/ \E reqId \in ReqIds : MarkSpokenRenameFails(reqId)

SpecFaults == InitHttp /\ [][NextFaults]_vars

(***************************************************************************)
(* The delivery endpoint of the serverless deployment,                     *)
(* voice-server-vercel.js, on the same store.                              *)
(***************************************************************************)
\* the segmentId property of a request body: the ids of ReqIds, or << >> for
\* a body without the property
BodyIds == ReqIds \cup {<<>>}

\* GET /voice/check-new
CheckNewVercel ==
    /\ LET pendingSegments == Len(SelectSeq(queue.segments, LAMBDA s : s.status = "pending"))
           readySegments == Len(SelectSeq(queue.segments, LAMBDA s : s.status = "ready"))
       IN  Respond([NoResp EXCEPT !.op = "vercel-check-new", !.code = 200,
                       !.hasSegment = (pendingSegments > 0 \/ readySegments > 0),
                       !.keys = {"newContent", "pending", "ready"}])
    /\ UNCHANGED <<transcript, queue, files, now, apiKey, variant, recording, coinGecko, synth, appends, consumed, nextSeq>>

\* GET /voice/next-segment, up to the response or to the first await
GetNextVercel ==
    /\ LET found == getNextSegmentToSpeak(queue)
       IN  IF found = <<>>
           THEN /\ Respond([NoResp EXCEPT !.op = "vercel-next", !.code = 200,
                                !.keys = {"hasSegment"}])
                /\ UNCHANGED synth
           ELSE IF found[1].status = "pending" /\ found[1].audioFile = NoPath
           THEN StartAudio("vercel-next", found[1])
           ELSE /\ Respond(vercelNextResponse(found[1]))
                /\ UNCHANGED synth
    /\ UNCHANGED <<transcript, queue, files, now, apiKey, variant, recording, coinGecko, appends, consumed, nextSeq>>

\* POST /voice/mark-spoken
MarkSpokenVercel(segmentId) ==
    /\ IF segmentId = <<>>
       THEN /\ Respond([NoResp EXCEPT !.op = "vercel-mark-spoken", !.code = 400,
                            !.error = "Missing segmentId parameter", !.keys = {"error"}])
            /\ UNCHANGED <<queue, files>>
       ELSE LET r == markSegmentAsSpoken(queue, files, parseInt(segmentId), now)
            IN  /\ queue' = r.queue
                /\ files' = r.files
                /\ Respond([NoResp EXCEPT !.op = "vercel-mark-spoken", !.code = 200,
                               !.success = TRUE, !.id = parseInt(segmentId),
                               !.keys = {"success"}])
    /\ UNCHANGED <<transcript, now, apiKey, variant, recording, coinGecko, synth, appends, consumed, nextSeq>>

\* POST /voice/regenerate-audio: getScriptQueue is not among the exports of
\* the voice management module, so the call in the try block throws a
\* TypeError and the catch block answers
RegenerateVercel(segmentId) ==
    /\ IF segmentId = <<>>
       THEN Respond([NoResp EXCEPT !.op = "vercel-regenerate", !.code = 400,
                        !.error = "Missing segmentId parameter", !.keys = {"error"}])
       ELSE Respond([NoResp EXCEPT !.op = "vercel-regenerate", !.code = 500,
                        !.error = "getScriptQueue is not a function", !.keys = {"error"}])
    /\ UNCHANGED <<transcript, queue, files, now, apiKey, variant, recording, coinGecko, synth, appends, consumed, nextSeq>>

\* the routes of voice-server-vercel.js that read queue.json
VercelReaders == {"vercel-check-new", "vercel-next", "vercel-mark-spoken"}

\* the read of queue.json throws in a route and its catch block answers
\* res.status(500).json({error})
StoreReadFailsVercel(op) ==
    /\ Respond([NoResp EXCEPT !.op = op, !.code = 500, !.error = "EIO", !.keys = {"error"}])
    /\ UNCHANGED <<transcript, queue, files, now, apiKey, variant, recording, coinGecko, synth, appends, consumed, nextSeq>>

\* the serverless endpoint, beside a process that runs the ingestor on the
\* same scripts directory
NextVercel ==
    \/ \E u \in Utterances : AppendTranscript(u)
    \/ IngestTimer
    \/ CheckNewVercel
    \/ GetNextVercel
    \/ \E segmentId \in BodyIds : MarkSpokenVercel(segmentId)
    \/ \E segmentId \in BodyIds : RegenerateVercel(segmentId)
    \/ \E op \in VercelReaders : StoreReadFailsVercel(op)
    \/ \E call \in BagToSet(synth) : TtsFails(call)
    \/ \E call \in BagToSet(synth) : TtsChunk(call)
    \/ \E call \in BagToSet(synth) : TtsDone(call)

SpecVercel == InitHttp /\ [][NextVercel]_vars

(***************************************************************************)
(* The retention sweep when a file cannot be deleted.                      *)
(***************************************************************************)
\* cleanupOldSpokenSegments when unlinkSync throws for the k-th segment: the
\* filter callback has deleted the files of the expired segments before it,
\* the exception leaves the function before updateScriptQueue, so queue.json
\* is as it was
cleanupOldSpokenSegmentsUnlinkFails(q, fs, t, k) ==
    LET cutoffDate == t - MAX_SCRIPT_AGE_DAYS
        expired(s) == s.status = "spoken" /\ s.spokenAt # NoDate /\ s.spokenAt < cutoffDate
        deleted == {q.segments[m].audioFile : m \in {n \in 1..(k - 1) :
                        expired(q.segments[n]) /\ q.segments[n].audioFile # NoPath}}
    IN  [queue |-> q, files |-> fs \ deleted]

\* POST /api/cleanup when the file of the k-th segment, expired and still on
\* disk when the sweep reaches it, cannot be deleted
CleanupUnlinkFails(k) ==
    /\ k \in 1..Len(queue.segments)
    /\ LET s == queue.segments[k]
           r == cleanupOldSpokenSegmentsUnlinkFails(queue, files, now, k)
       IN  /\ s.status = "spoken"
           /\ s.spokenAt # NoDate
           /\ s.spokenAt < now - MAX_SCRIPT_AGE_DAYS
           /\ s.audioFile # NoPath
           /\ s.audioFile \in r.files
           /\ queue' = r.queue
           /\ files' = r.files
    /\ Respond(errorResponse("cleanup"))
    /\ UNCHANGED <<transcript, now, apiKey, variant, recording, coinGecko, synth, appends, consumed, nextSeq>>

\* the days on which two segments can be ingested and spoken apart and both
\* be older than the retention window
SweepDays == {1, 2, MaxTime + 1}

TickSweep ==
    /\ \E t \in SweepDays : t > now /\ now' = t
    /\ resp' = NoResp
    /\ UNCHANGED <<transcript, queue, files, apiKey, variant, recording, coinGecko, synth, appends, consumed, nextSeq>>

NextSweep ==
    \/ \E u \in Utterances : AppendTranscript(u)
    \/ TickSweep
    \/ CheckNewSegments
    \/ GetNext
    \/ \E call \in BagToSet(synth) : TtsChunk(call)
    \/ \E call \in BagToSet(synth) : TtsDone(call)
    \/ \E n \in SweepDays : MarkSpoken(toString(n))
    \/ CleanupRequest
    \/ \E k \in 1..MaxAppends : CleanupUnlinkFails(k)

SpecSweep == InitHttp /\ [][NextSweep]_vars

(***************************************************************************)
(* Storage failures outside the routes.                                    *)
(***************************************************************************)
\* the value of variant once the process has exited: no module is loaded
Exited == "none"

\* the sweep of the daily setInterval, or the one of the listen callback,
\* when getScriptQueue, unlinkSync or updateScriptQueue throws: nothing
\* catches the exception in the timer callback and no uncaughtException
\* handler is installed, so the process exits and its pending calls with it
SweepTimerThrows ==
    /\ variant # Exited
    /\ variant' = Exited
    /\ synth' = EmptyBag
    /\ resp' = NoResp
    /\ UNCHANGED <<transcript, queue, files, now, apiKey, recording, coinGecko, appends, consumed, nextSeq>>

\* the voice server with its storage failures, while it runs
NextStorage ==
    \/ variant # Exited /\ NextFaults
    \/ SweepTimerThrows

SpecStorage == InitHttp /\ [][NextStorage]_vars

(***************************************************************************)
(* The ingestor on enumerated transcripts.                                 *)
(***************************************************************************)
\* the concatenations of at most n elements of tokens
RECURSIVE TokenTexts(_, _)
TokenTexts(tokens, n) ==
    IF n = 0 THEN {<<>>}
    ELSE LET shorter == TokenTexts(tokens, n - 1)
         IN  shorter \cup {p \o t : p \in shorter, t \in tokens}

\* a letter, sentence punctuation, white space, brackets, angle brackets and
\* the two phoneme tags
IngestTokens ==
    { <<"a">>, <<".">>, <<" ">>, <<"\n">>, <<"[">>, <<"]">>, <<"<">>, <<">">>,
      <<"<", "phoneme", ">">>, <<"<", "/", "phoneme", ">">> }

\* the server started beside a transcript that is missing or holds any text
InitIngest ==
    /\ Start
    /\ transcript \in {NoFile} \cup TokenTexts(IngestTokens, MaxTextLen)
    /\ appends = IF transcript = NoFile THEN 0 ELSE 1
    /\ apiKey = TRUE
    /\ variant = "voice-management"
    /\ recording = TRUE
    /\ coinGecko = LimiterLoaded

NextIngest ==
    \/ \E u \in Utterances : AppendTranscript(u)
    \/ CheckNewSegments

SpecIngest == InitIngest /\ [][NextIngest]_vars

(***************************************************************************)
(* The chunk splitter of both copies of the module on enumerated texts.    *)
(***************************************************************************)
\* a letter, a capital, a full stop, a comma and a space
SplitTokens == { <<"a">>, <<"A">>, <<".">>, <<",">>, <<" ">> }

InitSplit ==
    /\ Start
    /\ transcript \in TokenTexts(SplitTokens, MaxSplitLen)
    /\ appends = 1
    /\ apiKey = TRUE
    /\ variant \in Variants
    /\ recording = FALSE
    /\ coinGecko = LimiterLoaded

NextSplit ==
    \/ IngestTimer
    \/ GetNext
    \/ \E call \in BagToSet(synth) : TtsFails(call)
    \/ \E call \in BagToSet(synth) : TtsChunk(call)
    \/ \E call \in BagToSet(synth) : TtsDone(call)

SpecSplit == InitSplit /\ [][NextSplit]_vars

(***************************************************************************)
(* Properties.                                                             *)
(***************************************************************************)
Segments == {queue.segments[k] : k \in 1..Len(queue.segments)}

Unspoken(s) == s.status \in {"pending", "ready"}

\* C1: what getNextSegmentToSpeak returns is an unspoken segment of the queue
\* before which, in the order of insertion, every segment is spoken; it
\* returns nothing exactly when the queue holds no pending or ready segment.
C1_NextIsEarliestUnspoken ==
    LET found == getNextSegmentToSpeak(queue)
    IN  /\ (found = <<>>) <=> (\A s \in Segments : ~Unspoken(s))
        /\ found # <<>> =>
             /\ found[1] \in Segments
             /\ Unspoken(found[1])
             /\ \A s \in Segments : s.seq < found[1].seq => ~Unspoken(s)

\* two unspoken segments wait and the earlier one is served
C1_Witness ==
    /\ Len(queue.segments) >= 2
    /\ Unspoken(queue.segments[1])
    /\ Unspoken(queue.segments[2])
    /\ getNextSegmentToSpeak(queue) = <<queue.segments[1]>>

\* C2: for every segment of the store, audioFile is set if and only if the
\* status is ready or spoken.
C2_AudioPresence ==
    \A s \in Segments : (s.audioFile # NoPath) <=> (s.status \in {"ready", "spoken"})

\* C3: a step changes the status of a segment only from pending to ready or
\* from ready to spoken.
C3_ForwardOnly ==
    [][\A k \in 1..Len(queue.segments), m \in 1..Len(queue'.segments) :
          (queue.segments[k].seq = queue'.segments[m].seq
           /\ queue.segments[k].status # queue'.segments[m].status)
          => \/ (queue.segments[k].status = "pending"
                 /\ queue'.segments[m].status = "ready")
             \/ (queue.segments[k].status = "ready"
                 /\ queue'.segments[m].status = "spoken")]_vars

\* C4: mark-spoken for a segment that is already spoken changes neither the
\* store nor the audio files.
C4_MarkSpokenIdempotent ==
    [][\A reqId \in ReqIds :
          (/\ MarkSpoken(reqId)
           /\ \E s \in Segments :
                StrictEquals(s.id, parseInt(reqId)) /\ s.status = "spoken")
          => (queue' = queue /\ files' = files)]_vars

\* C5: mark-spoken with an id that is the id of no segment of the store
\* answers success and changes neither the cursor, nor a segment, nor an
\* audio file.
C5_UnknownIdNoOp ==
    [][\A reqId \in ReqIds :
          (/\ MarkSpoken(reqId)
           /\ \A s \in Segments : toString(s.id) # reqId)
          => /\ queue' = queue
             /\ files' = files
             /\ resp'.code = 200
             /\ resp'.success]_vars

\* C6: the cursor never decreases, and it is the length of the transcript
\* text the ingestor has taken so far, which is the head of the transcript.
C6_CursorMonotone ==
    [][/\ queue'.lastPosition >= queue.lastPosition
       /\ queue'.lastPosition = Len(consumed')
       /\ transcript' # NoFile =>
            /\ Len(consumed') <= Len(transcript')
            /\ consumed' = SubSeq(transcript', 1, Len(consumed'))]_vars

\* the cursor has advanced over two appends, at the end of the transcript,
\* with a synthesis and a mark-spoken written to the store in between
C6_Witness ==
    /\ transcript # NoFile
    /\ appends = 2
    /\ queue.lastPosition = Len(transcript)
    /\ Len(queue.segments) = 2
    /\ queue.segments[1].status = "spoken"
    /\ queue.segments[1].audioFile # NoPath
    /\ queue.segments[2].status = "ready"

\* transcript[cursor:], empty while the transcript does not exist
UnreadSuffix ==
    IF transcript = NoFile THEN <<>>
    ELSE IF queue.lastPosition < Len(transcript)
         THEN SubSeq(transcript, queue.lastPosition + 1, Len(transcript))
         ELSE <<>>

\* the guard of the ingestor, stated on the characters of the text
PassesGuard(text) ==
    /\ \E k \in 1..Len(text) : ~IsWhitespace(text[k])
    /\ \E k \in 1..Len(text) : text[k] \in {".", "!", "?"}

\* C7: check-new-segments on an unread suffix that is empty, only white
\* space or without '.', '!', '?', or on a missing or unreadable transcript,
\* reports no segment and changes neither the cursor nor the segment list.
C7_GuardedIngestNoOp ==
    [][(/\ CheckNewSegments
        /\ \/ transcript = NoFile
           \/ ~PassesGuard(UnreadSuffix)
           \/ resp'.code = 500)
       => /\ queue' = queue
          /\ ~resp'.hasSegment]_vars

\* a poll has answered "no new segment" on an unread text that holds words
\* but no sentence punctuation, and has kept the cursor before it
C7_Witness ==
    /\ resp.op = "check-new"
    /\ resp.code = 200
    /\ ~resp.hasSegment
    /\ UnreadSuffix # <<>>
    /\ \E k \in 1..Len(UnreadSuffix) : ~IsWhitespace(UnreadSuffix[k])
    /\ ~PassesGuard(UnreadSuffix)

\* text holds '[' and, later, ']'
HasDirection(text) ==
    \E i, j \in 1..Len(text) : i < j /\ text[i] = "[" /\ text[j] = "]"

\* text holds '<', at least one character other than '>', then '>'
HasTag(text) ==
    \E i, j \in 1..Len(text) :
        /\ i + 1 < j
        /\ text[i] = "<"
        /\ text[j] = ">"
        /\ \A k \in (i + 1)..(j - 1) : text[k] # ">"

\* C8: an ingest whose unread suffix passes the guard appends exactly one
\* segment, pending and without audio, at the end of the queue and sets the
\* cursor to the length of the transcript; the stored text holds neither a
\* bracketed direction nor a markup tag, and is the suffix itself when the
\* suffix holds no bracket and no angle bracket.
C8_IngestStoresCleanSuffix ==
    [][(/\ CheckNewSegments
        /\ resp'.code = 200
        /\ PassesGuard(UnreadSuffix))
       => /\ Len(queue'.segments) = Len(queue.segments) + 1
          /\ SubSeq(queue'.segments, 1, Len(queue.segments)) = queue.segments
          /\ queue'.lastPosition = Len(transcript)
          /\ LET new == queue'.segments[Len(queue'.segments)]
             IN  /\ new.status = "pending"
                 /\ new.audioFile = NoPath
                 /\ ~HasDirection(new.text)
                 /\ ~HasTag(new.text)
                 /\ (\A k \in 1..Len(UnreadSuffix) :
                        UnreadSuffix[k] \notin {"[", "]", "<", ">"})
                    => new.text = UnreadSuffix]_vars

\* the generateAudio calls awaiting the speech provider
Calls == BagToSet(synth)

\* the concatenation of the chunks from the k-th on
RECURSIVE concatFrom(_, _)
concatFrom(chunks, k) ==
    IF k > Len(chunks) THEN <<>> ELSE chunks[k] \o concatFrom(chunks, k + 1)

\* C9: the chunks of a call are one chunk when the sanitized text is at most
\* MAX_CHARS long, are each at most MAX_CHARS long, and concatenated in
\* order are the sanitized text.
C9_ChunksPartitionText ==
    \A call \in Calls :
        LET text == cleanText(call.seg[1].text)
        IN  /\ Len(text) <= MAX_CHARS => Len(call.chunks) = 1
            /\ \A k \in 1..Len(call.chunks) : Len(call.chunks[k]) <= MAX_CHARS
            /\ concatFrom(call.chunks, 1) = text

\* a call holds three chunks or more, one of them cut before the limit
\* after a full stop or a space
C9_Witness ==
    \E call \in Calls :
        /\ Len(call.chunks) >= 3
        /\ \E k \in 1..(Len(call.chunks) - 1) :
              /\ Len(call.chunks[k]) < MAX_CHARS
              /\ call.chunks[k][Len(call.chunks[k])] \in {".", " "}

\* the segment at the head of the queue is pending and has no audio
HeadAwaitsAudio ==
    LET found == getNextSegmentToSpeak(queue)
    IN  found # <<>> /\ found[1].status = "pending" /\ found[1].audioFile = NoPath

\* C10: a failed request of the speech provider, at any chunk, ends the call
\* with a null result, without a file written, a record changed or another
\* request sent; so does a call without API key; and next-segment on a
\* head segment still pending without audio calls the synthesizer again.
C10_FailedSynthesisLeavesPending ==
    [][/\ \A call \in Calls : TtsFails(call) =>
            /\ queue' = queue
            /\ files' = files
            /\ BagCardinality(synth') = BagCardinality(synth) - 1
            /\ resp'.audioUrl = NoPath
            /\ call.op = "next" => resp'.status = "pending"
       /\ (GetNext /\ HeadAwaitsAudio /\ ~apiKey) =>
            /\ queue' = queue
            /\ files' = files
            /\ synth' = synth
            /\ resp'.hasSegment
            /\ resp'.audioUrl = NoPath
            /\ resp'.status = "pending"
       /\ (GetNext /\ HeadAwaitsAudio /\ apiKey) =>
            \E call \in BagToSet(synth') :
                /\ call.op = "next"
                /\ call.seg = getNextSegmentToSpeak(queue)
                /\ call.i = 0
                /\ synth' = synth (+) SetToBag({call})]_vars

\* next-segment has answered without audio for a text of several chunks
\* although the API key is set, and the segment is still pending, without
\* audio and without a file
C10_Witness ==
    /\ apiKey
    /\ resp.op = "next"
    /\ resp.hasSegment
    /\ resp.audioUrl = NoPath
    /\ resp.status = "pending"
    /\ Len(textChunks(cleanText(resp.text), MAX_CHARS)) >= 2
    /\ \E s \in Segments :
          /\ s.id = resp.id
          /\ s.status = "pending"
          /\ s.audioFile = NoPath
          /\ join(CURRENT_DIR, segmentFileName(s.id)) \notin files

\* C11: when the inline synthesis of next-segment fails for a pending
\* segment without audio, the response has hasSegment true, the id and the
\* text of the segment, a null audioUrl and an error property.
C11_FailureCarriesErrorFlag ==
    [][/\ \A call \in Calls :
            (TtsFails(call) /\ call.op = "next") =>
                /\ resp'.hasSegment
                /\ resp'.id = call.seg[1].id
                /\ resp'.text = call.seg[1].text
                /\ resp'.audioUrl = NoPath
                /\ "error" \in resp'.keys
       /\ (GetNext /\ HeadAwaitsAudio /\ ~apiKey) =>
                /\ resp'.hasSegment
                /\ resp'.audioUrl = NoPath
                /\ "error" \in resp'.keys]_vars

\* the segment was spoken more than MAX_SCRIPT_AGE_DAYS days before t
OlderThanWindow(s, t) == s.status = "spoken" /\ s.spokenAt < t - MAX_SCRIPT_AGE_DAYS

\* C12: a retention sweep removes exactly the spoken segments whose spokenAt
\* is older than now minus 7 days and keeps every other segment with its
\* fields, in the same relative order, and the cursor.
C12_SweepRemovesExactlyExpired ==
    [][(CleanupRequest \/ CleanupTimer) =>
          /\ queue'.lastPosition = queue.lastPosition
          /\ {queue'.segments[k] : k \in 1..Len(queue'.segments)}
                = {s \in Segments : ~OlderThanWindow(s, now)}
          /\ Len(queue'.segments) = Cardinality({s \in Segments : ~OlderThanWindow(s, now)})
          /\ \A i, j \in 1..Len(queue'.segments) :
                i < j => queue'.segments[i].seq < queue'.segments[j].seq]_vars

\* a sweep request has removed one of two segments and has kept a segment
\* spoken within the window
C12_Witness ==
    /\ resp.op = "cleanup"
    /\ nextSeq = 3
    /\ Len(queue.segments) = 1
    /\ queue.segments[1].status = "spoken"
    /\ queue.segments[1].spokenAt >= now - MAX_SCRIPT_AGE_DAYS

\* the index of the segment markSegmentAsSpoken finds for a request id, 0
\* when it finds none
FoundIndex(reqId) ==
    LET hits == {k \in 1..Len(queue.segments) :
                    StrictEquals(queue.segments[k].id, parseInt(reqId))}
    IN  IF hits = {} THEN 0 ELSE CHOOSE k \in hits : \A m \in hits : k <= m

\* path lies in the "current" directory
InCurrent(path) == path # NoPath /\ Head(path) = CURRENT_DIR

\* C13: mark-spoken on a segment whose audioFile lies in the current
\* directory makes it spoken at the present time, moves the file to the spoken
\* directory and stores the new path, so that the record names a file that
\* exists; when the move fails the record names the current path and the
\* file is still there.
C13_MarkSpokenArchivesAudio ==
    [][\A reqId \in ReqIds :
          LET k == FoundIndex(reqId)
              old == queue.segments[k]
              new == queue'.segments[k]
              spokenFile == <<SPOKEN_DIR>> \o Tail(old.audioFile)
          IN  /\ (MarkSpoken(reqId) /\ k # 0 /\ InCurrent(old.audioFile)) =>
                    /\ new.status = "spoken"
                    /\ new.spokenAt = now
                    /\ new.audioFile = spokenFile
                    /\ spokenFile \in files'
                    /\ old.audioFile \notin files'
              /\ (MarkSpokenRenameFails(reqId) /\ k # 0 /\ InCurrent(old.audioFile)) =>
                    /\ new.audioFile = old.audioFile
                    /\ old.audioFile \in files']_vars

\* mark-spoken has answered for a segment that is now spoken, with its audio
\* in the spoken directory and no longer in the current one
C13_Witness ==
    /\ resp.op = "mark-spoken"
    /\ resp.code = 200
    /\ \E s \in Segments :
          /\ s.id = resp.id
          /\ s.status = "spoken"
          /\ s.spokenAt = now
          /\ s.audioFile = join(SPOKEN_DIR, segmentFileName(s.id))
          /\ s.audioFile \in files
          /\ join(CURRENT_DIR, segmentFileName(s.id)) \notin files

\* C14: a generateAudio call that awaits the speech provider eventually
\* returns, so that the request that made it is eventually answered.
C14_SynthesisCompletes == (synth # EmptyBag) ~> (synth = EmptyBag)

\* C15: regenerate-audio answers 404 exactly when no segment of the store
\* has the requested id, and otherwise synthesizes the segment again.
C15_RegenerateKnownSegment ==
    [][\A reqId \in ReqIds :
          Regenerate(reqId) =>
              LET known == \E s \in Segments : StrictEquals(s.id, parseInt(reqId))
              IN  /\ (resp'.code = 404) <=> ~known
                  /\ (known /\ apiKey) =>
                        \E call \in BagToSet(synth') :
                            /\ call.op = "regenerate"
                            /\ StrictEquals(call.seg[1].id, parseInt(reqId))
                            /\ synth' = synth (+) SetToBag({call})]_vars

\* C16: the response a route sends from its catch block, after a failure of
\* the store, of the transcript read or of the synthesizer (status 500), has
\* success false and an error property.
C16_FailuresAreStructured ==
    resp.code = 500 =>
        /\ "success" \in resp.keys
        /\ ~resp.success
        /\ "error" \in resp.keys

C18_IdsStrictlyIncrease ==
    \A i, j \in 1..Len(queue.segments) :
        i < j => queue.segments[i].id < queue.segments[j].id

\* C19: at most 20 requests are sent to CoinGecko within a minute, and two
\* consecutive requests are at least 3 seconds apart.
C19_RateLimitRespected ==
    /\ coinGecko.burstCount <= MAX_COINGECKO_REQUESTS_PER_MINUTE
    /\ ~coinGecko.tooClose

\* a is an initial part of b
IsPrefix(a, b) == Len(a) <= Len(b) /\ SubSeq(b, 1, Len(a)) = a

\* C20: whatever step is taken, the previous content of full-script.txt is
\* a prefix of its new content.
C20_TranscriptAppendOnly ==
    [][transcript # NoFile => IsPrefix(transcript, transcript')]_vars

\* what the ingestor stores for the text new
cleanContentOf(new) == replaceTags(replacePhoneme(trim(replaceBracketed(new))))

\* C21: whenever the persisted cursor moves, by an ingest or by an ingest cut
\* short by a crash, over text that cleans to something, the persisted store
\* holds the new segment for that text at its end.
C21_IngestAllOrNothing ==
    [][(queue'.lastPosition # queue.lastPosition /\ cleanContentOf(UnreadSuffix) # <<>>)
          => /\ queue'.segments # <<>>
             /\ LET new == queue'.segments[Len(queue'.segments)]
                IN  /\ new.seq = nextSeq
                    /\ new.text = cleanContentOf(UnreadSuffix)]_vars

\* the last position of window that holds one of marks, 0 when none does
LastOf(window, marks) ==
    LET hits == {k \in 1..Len(window) : window[k] \in marks}
    IN  IF hits = {} THEN 0 ELSE CHOOSE k \in hits : \A m \in hits : k >= m

\* where the chunk cut from window ends: at the last sentence-ending mark,
\* else at the last comma, else at the end of the window
PreferredCut(window) ==
    IF LastOf(window, {".", "!", "?"}) > 0 THEN LastOf(window, {".", "!", "?"})
    ELSE IF LastOf(window, {","}) > 0 THEN LastOf(window, {","})
    ELSE Len(window)

\* C22: of a sanitized text longer than MAX_CHARS, every chunk but the last
\* ends at the last '.', '!' or '?' of its window of MAX_CHARS characters, at
\* the last comma when the window holds none of them, and at the end of the
\* window when it holds no comma either.
C22_ChunksEndAtPreferredBreak ==
    \A call \in Calls :
        LET text == cleanText(call.seg[1].text)
        IN  Len(text) > MAX_CHARS =>
                \A n \in 1..(Len(call.chunks) - 1) :
                    LET start == Len(text) - Len(concatFrom(call.chunks, n))
                        window == SubSeq(text, start + 1, start + MAX_CHARS)
                    IN  Len(call.chunks[n]) = PreferredCut(window)

\* C23: when a sweep ends, with or without a failed deletion, an expired
\* segment whose audio file was on disk has lost its record exactly when it
\* has lost its file.
C23_SweepDeletesAsUnit ==
    [][(CleanupRequest \/ \E k \in 1..MaxAppends : CleanupUnlinkFails(k)) =>
          \A s \in Segments :
              (OlderThanWindow(s, now) /\ s.audioFile # NoPath /\ s.audioFile \in files)
                  => ((s.audioFile \notin files') <=>
                         (\A k \in 1..Len(queue'.segments) : queue'.segments[k] # s))]_vars

\* q2 is q1 after an ingest: the cursor has not moved back and the segments
\* are those of q1, followed by at most one new segment
IsAppend(q1, q2) ==
    /\ q2.lastPosition >= q1.lastPosition
    /\ Len(q2.segments) \in {Len(q1.segments), Len(q1.segments) + 1}
    /\ SubSeq(q2.segments, 1, Len(q1.segments)) = q1.segments

\* q2 is q1 with the status, the audio file and the spoken time of one
\* segment updated
IsUpdate(q1, q2) ==
    /\ q2.lastPosition = q1.lastPosition
    /\ Len(q2.segments) = Len(q1.segments)
    /\ \E k \in 1..Len(q1.segments) :
          /\ \A m \in 1..Len(q1.segments) : m # k => q2.segments[m] = q1.segments[m]
          /\ q2.segments[k] = [q1.segments[k] EXCEPT !.status = q2.segments[k].status,
                                                     !.audioFile = q2.segments[k].audioFile,
                                                     !.spokenAt = q2.segments[k].spokenAt]

\* q2 is q1 less its spoken segments older than the window at time t
IsPurge(q1, q2, t) ==
    /\ q2.lastPosition = q1.lastPosition
    /\ q2.segments = SelectSeq(q1.segments, LAMBDA s : ~OlderThanWindow(s, t))

\* C24: every step that changes the store applies one mutation (an append
\* with its cursor advance, an update of one segment, a purge) to the store
\* as it is, whatever synthesis calls are in flight: what the other
\* mutations have written is kept.
C24_MutationsSerialized ==
    [][queue' # queue =>
          \/ IsAppend(queue, queue')
          \/ IsUpdate(queue, queue')
          \/ IsPurge(queue, queue', now)]_vars

\* a synthesis call has just stored its audio for the first segment, which
\* was marked spoken while the call was in flight, beside a second segment
\* ingested since
C24_Witness ==
    /\ resp.op = "next"
    /\ resp.audioUrl # NoPath
    /\ Len(queue.segments) = 2
    /\ queue.segments[1].status = "ready"
    /\ queue.segments[1].spokenAt # NoDate
    /\ queue.segments[1].id # queue.segments[2].id

\* the segment the store finds for the id of call is ready, and its audio
\* is the file of the current directory named after the id, which exists
AlreadySynthesized(call) ==
    LET k == FoundIndex(toString(call.seg[1].id))
        audioFile == join(CURRENT_DIR, segmentFileName(call.seg[1].id))
    IN  /\ k # 0
        /\ queue.segments[k].status = "ready"
        /\ queue.segments[k].audioFile = audioFile
        /\ audioFile \in files

\* C25: when a synthesis call ends for a segment that an earlier call has
\* already made ready, the store and the audio files stay as the earlier
\* call left them: no second record, no second file.
C25_SecondSynthesisChangesNothing ==
    [][\A call \in Calls :
          (TtsDone(call) /\ AlreadySynthesized(call))
              => (queue' = queue /\ files' = files)]_vars

\* two next-segment requests have started synthesis for the same pending
\* segment; one call has ended and made it ready, the other is about to end
C25_Witness ==
    \E call \in Calls :
        /\ call.op = "next"
        /\ call.seg[1].status = "pending"
        /\ call.seg[1].audioFile = NoPath
        /\ call.i + 1 = Len(call.chunks)
        /\ AlreadySynthesized(call)
        /\ queue.segments[FoundIndex(toString(call.seg[1].id))].seq = call.seg[1].seq

\* C26: no step ends the process, and a mark-spoken request that fails on
\* the move of the audio file leaves the store as it was or as the complete
\* operation leaves it.
C26_StorageFailureContained ==
    [][/\ variant' # Exited
       /\ \A reqId \in ReqIds :
             MarkSpokenRenameFails(reqId) =>
                 queue' \in {queue,
                             markSegmentAsSpoken(queue, files, parseInt(reqId), now).queue}]_vars

\* C27: when the synthesis started by a next-segment request for a pending
\* segment without audio ends with success, the response has an audioUrl,
\* which names the audio file the store records for the segment, and has no
\* error property.
C27_InlineSynthesisAnswersWithAudio ==
    [][\A call \in Calls :
          (/\ TtsDone(call)
           /\ call.op \in {"next", "vercel-next"}
           /\ call.seg[1].status = "pending"
           /\ call.seg[1].audioFile = NoPath)
          => /\ resp'.audioUrl # NoPath
             /\ "error" \notin resp'.keys
             /\ \A k \in 1..Len(queue'.segments) :
                   (StrictEquals(queue'.segments[k].id, call.seg[1].id)
                        /\ queue'.segments[k].status = "ready")
                      => resp'.audioUrl = audioUrlOf(queue'.segments[k].audioFile)]_vars

\* the n-th segment ingested is in the queue
Enqueued(n) == \E s \in Segments : s.seq = n

\* the n-th segment ingested is in the queue and spoken
Spoken(n) == \E s \in Segments : s.seq = n /\ s.status = "spoken"

\* C28: every segment that is enqueued is eventually spoken.
C28_EnqueuedEventuallySpoken ==
    \A n \in 1..MaxAppends : Enqueued(n) ~> Spoken(n)

\* the index at which the n-th iteration of the splitting loop starts
startIndexOf(call, n) ==
    Len(cleanText(call.seg[1].text)) - Len(concatFrom(call.chunks, n))

\* C29: the splitting loop of a sanitized text longer than MAX_CHARS ends
\* after at most as many iterations as the text has characters; every
\* iteration emits a non-empty chunk and leaves the start index strictly
\* larger than it found it, and the last one leaves it at the end of the text.
C29_SplitLoopTerminates ==
    \A call \in Calls :
        LET text == cleanText(call.seg[1].text)
        IN  Len(text) > MAX_CHARS =>
                /\ Len(call.chunks) <= Len(text)
                /\ startIndexOf(call, 1) = 0
                /\ \A n \in 1..Len(call.chunks) :
                      /\ Len(call.chunks[n]) > 0
                      /\ startIndexOf(call, n + 1) > startIndexOf(call, n)
                      /\ startIndexOf(call, n + 1) =
                             startIndexOf(call, n) + Len(call.chunks[n])
                /\ startIndexOf(call, Len(call.chunks) + 1) = Len(text)

\* a loop of at least three iterations that has cut a chunk at a break and
\* a chunk at the limit
C29_Witness ==
    \E call \in Calls :
        /\ Len(cleanText(call.seg[1].text)) > MAX_CHARS
        /\ Len(call.chunks) >= 3
        /\ \E n \in 1..(Len(call.chunks) - 1) : Len(call.chunks[n]) < MAX_CHARS
        /\ \E n \in 1..(Len(call.chunks) - 1) : Len(call.chunks[n]) = MAX_CHARS

\* C30: after a crash inside markSegmentAsSpoken and the restart, the record
\* of the segment that was being marked names the place where its audio file
\* is.
C30_CrashInMarkSpokenKeepsLocation ==
    [][\A reqId \in ReqIds, moved \in BOOLEAN :
          CrashInMarkSpoken(reqId, moved) =>
              LET k == findIndex(queue'.segments,
                                 LAMBDA s : StrictEquals(s.id, parseInt(reqId)))
              IN  k # 0 => queue'.segments[k].audioFile \in files']_vars

====
